---- MODULE Spec2Model ----
(***************************************************************************)
(* Time-series analytics of the stock dashboard (src/frontend.py):         *)
(* get_stock_data_for_period (the period window and its percent change)    *)
(* and calculate_stock_stats (current price, one-year return, annualised   *)
(* volatility, 52-week high/low and the distances from them), both working *)
(* on the shared stock_data_df frame that main() loads once.               *)
(*                                                                         *)
(* Numbers.  A float is a record [k, n, d]: k = "num" is the rational n/d  *)
(* in lowest terms with d > 0, k = "nan" and k = "inf" (n = sign) are the  *)
(* IEEE specials that numpy's division produces, k = "none" is Python's    *)
(* None.  Rounding is not modelled: a "num" is the exact value.            *)
(* The volatility field carries the exact square of the code's value,      *)
(* var(returns) * 252 * 100^2, because its square root is irrational.      *)
(*                                                                         *)
(* Dates.  A Date cell of the loaded frame is a date string, kept as the   *)
(* record [y, m, d]; pd.to_datetime turns it into a Timestamp, kept as     *)
(* [days] (days since 1970-01-01).                                         *)
(***************************************************************************)
EXTENDS Integers, Sequences, FiniteSets, TLC

VARIABLES stock_data,   \* the shared frame stock_data_df: a sequence of rows
          last_call,    \* the call that produced the results below
          period_data,  \* get_stock_data_for_period: first returned value
          pct_change,   \* get_stock_data_for_period: second returned value
          stats         \* calculate_stock_stats: the returned dict

vars == <<stock_data, last_call, period_data, pct_change, stats>>

\* ------------------------------------------------------------------ bounds
MaxRows == 3

\* ------------------------------------------------------------- arithmetic
Abs(x) == IF x < 0 THEN -x ELSE x

RECURSIVE Gcd(_, _)
Gcd(a, b) == IF b = 0 THEN a ELSE Gcd(b, a % b)

None == [k |-> "none", n |-> 0, d |-> 1]
NaN == [k |-> "nan", n |-> 0, d |-> 1]
Inf(sign) == [k |-> "inf", n |-> sign, d |-> 1]

Num(a, b) ==
  LET g == Gcd(Abs(a), Abs(b))
      s == IF b < 0 THEN -1 ELSE 1
  IN  [k |-> "num", n |-> (s * a) \div g, d |-> (s * b) \div g]

Sign(x) == IF x.n > 0 THEN 1 ELSE IF x.n < 0 THEN -1 ELSE 0

\* x / y on floats
FDiv(x, y) ==
  IF x.k = "nan" \/ y.k = "nan" THEN NaN
  ELSE IF x.k = "inf" THEN (IF y.k = "inf" THEN NaN
                            ELSE Inf(IF y.n < 0 THEN -x.n ELSE x.n))
  ELSE IF y.k = "inf" THEN Num(0, 1)
  ELSE IF y.n = 0 THEN (IF x.n = 0 THEN NaN ELSE Inf(Sign(x)))
  ELSE LET g1 == Gcd(Abs(x.n), Abs(y.n))
           g2 == Gcd(x.d, y.d)
       IN  Num((x.n \div g1) * (y.d \div g2), (x.d \div g2) * (y.n \div g1))

\* x * y on floats
FMul(x, y) ==
  IF x.k = "nan" \/ y.k = "nan" THEN NaN
  ELSE IF x.k = "inf" \/ y.k = "inf"
       THEN (IF Sign(x) * Sign(y) = 0 THEN NaN ELSE Inf(Sign(x) * Sign(y)))
  ELSE LET g1 == Gcd(Abs(x.n), y.d)
           g2 == Gcd(Abs(y.n), x.d)
       IN  Num((x.n \div g1) * (y.n \div g2), (x.d \div g2) * (y.d \div g1))

\* x + y on floats
FAdd(x, y) ==
  IF x.k = "nan" \/ y.k = "nan" THEN NaN
  ELSE IF x.k = "inf" THEN (IF y.k = "inf" /\ y.n # x.n THEN NaN ELSE x)
  ELSE IF y.k = "inf" THEN y
  ELSE LET g == Gcd(x.d, y.d)
       IN  Num(x.n * (y.d \div g) + y.n * (x.d \div g), (x.d \div g) * y.d)

FSub(x, y) == FAdd(x, [y EXCEPT !.n = -y.n])

\* x <= y on finite floats
FLeq(x, y) == x.n * y.d <= y.n * x.d

\* Python truthiness of a value that is None or a numpy float
Truthy(x) == x.k # "none" /\ ~(x.k = "num" /\ x.n = 0)

\* ((a / b) - 1) * 100, the percent-change expression of lines 43, 66, 88, 89
PctOf(a, b) == FMul(FSub(FDiv(a, b), Num(1, 1)), Num(100, 1))

\* ------------------------------------------------------------------ dates
\* pd.to_datetime of a date string: days since 1970-01-01 (proleptic Gregorian)
DaysFromCivil(y, m, d) ==
  LET yy == IF m <= 2 THEN y - 1 ELSE y
      era == yy \div 400
      yoe == yy - era * 400
      mp == IF m > 2 THEN m - 3 ELSE m + 9
      doy == (153 * mp + 2) \div 5 + d - 1
      doe == yoe * 365 + yoe \div 4 - yoe \div 100 + doy
  IN  era * 146097 + doe - 719468

IsTimestamp(v) == "days" \in DOMAIN v

\* pd.to_datetime: parses a date string, leaves a Timestamp as it is
ToDatetime(v) ==
  IF IsTimestamp(v) THEN v ELSE [days |-> DaysFromCivil(v.y, v.m, v.d)]

\* Timestamp - timedelta(days = n)
MinusDays(ts, n) == [days |-> ts.days - n]

YearDays == 365

\* ----------------------------------------------------------------- frames
\* A row of the frame: [Ticker, Date, AdjClose]; a frame is a sequence of rows.
Tickers == {"AAA", "BBB"}

Date(y, m, d) == [y |-> y, m |-> m, d |-> d]

\* the dates a loaded row may carry
SeriesDates == {Date(2022, 12, 31), Date(2023, 1, 1), Date(2024, 6, 1)}

\* the dates a row of the second ticker may carry
OtherDates == {Date(2023, 1, 1), Date(2024, 6, 1)}

\* the dates a caller may pass: 2024-01-01 is 2023-01-01 + 365 days, and
\* neither it nor 2024-01-02 is the date of a row
QueryDates == {Date(2022, 12, 31), Date(2024, 1, 1), Date(2024, 1, 2)}

NoDate == Date(0, 0, 0)

Closes == {90, 120}

ClosesWithZero == {0, 100}

\* the adjusted close of every row of the second ticker
OtherClose == 100

Row(t, dt, c) == [Ticker |-> t, Date |-> dt, AdjClose |-> c]

\* the example series of the specification, as main() would load it
ExampleFrame ==
  << Row("AAA", Date(2023, 1, 1), 100),
     Row("AAA", Date(2023, 6, 1), 120),
     Row("AAA", Date(2024, 1, 1), 90) >>

\* frames of at most MaxRows rows, in any row order, one row per ticker and date
LoadedFrames(closes) ==
  LET pool == {Row("AAA", dt, c) : dt \in SeriesDates, c \in closes}
                \cup {Row("BBB", dt, OtherClose) : dt \in OtherDates}
      all == UNION {[1..n -> pool] : n \in 0..MaxRows}
  IN  {f \in all : \A i, j \in DOMAIN f :
         (f[i].Ticker = f[j].Ticker /\ f[i].Date = f[j].Date) => i = j}

Price(r) == Num(r.AdjClose, 1)

\* faulty variant: the rows left in input order
KeepOrder(rows) == rows

\* df.sort_values("Date"): insertion sort of the rows by Timestamp
RECURSIVE InsertByDate(_, _)
InsertByDate(r, rows) ==
  IF rows = << >> THEN << r >>
  ELSE IF r.Date.days < Head(rows).Date.days THEN << r >> \o rows
  ELSE << Head(rows) >> \o InsertByDate(r, Tail(rows))

RECURSIVE SortByDate(_)
SortByDate(rows) ==
  IF rows = << >> THEN << >>
  ELSE InsertByDate(rows[Len(rows)], SortByDate(SubSeq(rows, 1, Len(rows) - 1)))

\* faulty variant: the selection without .copy(), taken as a view of the shared frame
TickerView(df, ticker) ==
  [rows |-> SelectSeq(df, LAMBDA r : r.Ticker = ticker), owns |-> FALSE]

\* stock_data_df[stock_data_df["Ticker"] == ticker].copy(): a new frame that
\* owns its rows (owns = FALSE would be a view onto the frame it came from)
TickerCopy(df, ticker) ==
  [rows |-> SelectSeq(df, LAMBDA r : r.Ticker = ticker), owns |-> TRUE]

\* ticker_data["Date"] = pd.to_datetime(ticker_data["Date"]): the rows of
\* ticker_data afterwards
WithTimestamps(rows) ==
  [i \in DOMAIN rows |-> [rows[i] EXCEPT !.Date = ToDatetime(@)]]

\* the same assignment, seen from the shared frame: a frame that owns its
\* rows leaves the shared frame alone, a view writes through to it
SharedAfterDateAssign(shared, ticker_data, ticker) ==
  IF ticker_data.owns THEN shared
  ELSE [i \in DOMAIN shared |->
          IF shared[i].Ticker = ticker
          THEN [shared[i] EXCEPT !.Date = ToDatetime(@)]
          ELSE shared[i]]

NoFrame == [none |-> TRUE, rows |-> << >>]
Frame(rows) == [none |-> FALSE, rows |-> rows]

\* ---------------------------------------------- get_stock_data_for_period
\* faulty variant: the end of the period excluded
PeriodMaskOpenEnd(rows, period_start, period_end) ==
  SelectSeq(rows, LAMBDA r :
    /\ r.Date.days >= ToDatetime(period_start).days
    /\ r.Date.days < ToDatetime(period_end).days)

\* the rows selected by the mask of line 32
PeriodMask(rows, period_start, period_end) ==
  SelectSeq(rows, LAMBDA r :
    /\ r.Date.days >= ToDatetime(period_start).days
    /\ r.Date.days <= ToDatetime(period_end).days)

\* the returned pair, as [period_data, pct_change]
PeriodResult(df, ticker, period_start, period_end) ==
  LET ticker_data == WithTimestamps(TickerCopy(df, ticker).rows)
      masked == PeriodMask(ticker_data, period_start, period_end)
      sorted == SortByDate(masked)
  IN  IF Len(masked) = 0
      THEN [period_data |-> NoFrame, pct_change |-> None]
      ELSE [period_data |-> Frame(sorted),
            pct_change |->
              IF Len(sorted) > 0
              THEN PctOf(Price(sorted[Len(sorted)]), Price(sorted[1]))
              ELSE Num(0, 1)]

NoStats == << >>

GetStockDataForPeriod(ticker, period_start, period_end) ==
  LET res == PeriodResult(stock_data, ticker, period_start, period_end)
  IN  /\ stock_data' = SharedAfterDateAssign(stock_data,
                                             TickerCopy(stock_data, ticker), ticker)
      /\ period_data' = res.period_data
      /\ pct_change' = res.pct_change
      /\ stats' = NoStats
      /\ last_call' = [op |-> "window", ticker |-> ticker,
                       period_start |-> period_start, period_end |-> period_end,
                       current_date |-> NoDate]

\* -------------------------------------------------- calculate_stock_stats
\* ticker_data after lines 52-54: the ticker's rows, Timestamps, sorted by date
SortedTickerData(df, ticker) ==
  SortByDate(WithTimestamps(TickerCopy(df, ticker).rows))

\* faulty variant: only a row dated exactly at the reference date
CurrentIdxExact(ticker_data, current_date) ==
  SelectSeq(ticker_data, LAMBDA r : r.Date.days = ToDatetime(current_date).days)

\* line 56: ticker_data[ticker_data["Date"] <= pd.to_datetime(current_date)]
CurrentIdx(ticker_data, current_date) ==
  SelectSeq(ticker_data, LAMBDA r : r.Date.days <= ToDatetime(current_date).days)

\* line 63: pd.to_datetime(current_date) - timedelta(days=365)
OneYearAgo(current_date) == MinusDays(ToDatetime(current_date), YearDays)

\* faulty variant: the day one year ago excluded
SinceOneYearAgoStrict(ticker_data, current_date) ==
  SelectSeq(ticker_data, LAMBDA r : r.Date.days > OneYearAgo(current_date).days)

\* lines 64 and 78: ticker_data[ticker_data["Date"] >= one_year_ago]
SinceOneYearAgo(ticker_data, current_date) ==
  SelectSeq(ticker_data, LAMBDA r : r.Date.days >= OneYearAgo(current_date).days)

\* faulty variant: the return computed only from two rows on
OneYearReturnTwoRows(current_price, one_year_data) ==
  IF Len(one_year_data) > 1
  THEN PctOf(current_price, Price(one_year_data[1]))
  ELSE None

\* lines 65-68
OneYearReturn(current_price, one_year_data) ==
  IF Len(one_year_data) > 0
  THEN PctOf(current_price, Price(one_year_data[1]))
  ELSE None

\* line 71: ticker_data["Adj Close"].pct_change().dropna(); pct_change gives
\* NaN for the first row and p[i] / p[i-1] - 1 for the others
Returns(ticker_data) ==
  LET pct == [i \in DOMAIN ticker_data |->
                IF i = 1 THEN NaN
                ELSE FSub(FDiv(Price(ticker_data[i]), Price(ticker_data[i - 1])),
                          Num(1, 1))]
  IN  SelectSeq(pct, LAMBDA x : x.k # "nan")

RECURSIVE FSum(_)
FSum(xs) == IF xs = << >> THEN Num(0, 1) ELSE FAdd(Head(xs), FSum(Tail(xs)))

\* returns.std() squared: the sample variance (ddof = 1), NaN for one value
\* (0 / 0) and for a series holding an infinity (inf - inf)
SampleVariance(xs) ==
  LET cnt == Len(xs)
      mean == FDiv(FSum(xs), Num(cnt, 1))
      sq == [i \in DOMAIN xs |-> FMul(FSub(xs[i], mean), FSub(xs[i], mean))]
  IN  IF \E i \in DOMAIN xs : xs[i].k # "num" THEN NaN
      ELSE FDiv(FSum(sq), Num(cnt - 1, 1))

TradingDays == 252

\* faulty variant: volatility only from two returns on
VolatilityFromTwo(returns) ==
  IF Len(returns) > 1
  THEN FMul(SampleVariance(returns), Num(TradingDays * 100 * 100, 1))
  ELSE None

\* lines 72-75; the value is the square of returns.std() * sqrt(252) * 100
Volatility(returns) ==
  IF Len(returns) > 0
  THEN FMul(SampleVariance(returns), Num(TradingDays * 100 * 100, 1))
  ELSE None

RECURSIVE MaxClose(_)
MaxClose(rows) ==
  IF Len(rows) = 1 THEN rows[1].AdjClose
  ELSE LET m == MaxClose(Tail(rows))
       IN  IF rows[1].AdjClose > m THEN rows[1].AdjClose ELSE m

RECURSIVE MinClose(_)
MinClose(rows) ==
  IF Len(rows) = 1 THEN rows[1].AdjClose
  ELSE LET m == MinClose(Tail(rows))
       IN  IF rows[1].AdjClose < m THEN rows[1].AdjClose ELSE m

\* lines 79-84
WeekHigh(fifty_two_weeks) ==
  IF Len(fifty_two_weeks) > 0 THEN Num(MaxClose(fifty_two_weeks), 1) ELSE None

WeekLow(fifty_two_weeks) ==
  IF Len(fifty_two_weeks) > 0 THEN Num(MinClose(fifty_two_weeks), 1) ELSE None

\* lines 87-92: the guard is Python truthiness of week_high and week_low
VsExtreme(current_price, week_high, week_low, extreme) ==
  IF Truthy(week_high) /\ Truthy(week_low)
  THEN PctOf(current_price, extreme)
  ELSE None

\* the returned dict
StatsResult(df, ticker, current_date) ==
  LET ticker_data == SortedTickerData(df, ticker)
      current_idx == CurrentIdx(ticker_data, current_date)
      current_price == Price(current_idx[Len(current_idx)])
      window == SinceOneYearAgo(ticker_data, current_date)
      week_high == WeekHigh(window)
      week_low == WeekLow(window)
  IN  IF Len(current_idx) = 0 THEN NoStats
      ELSE [current_price |-> current_price,
            one_year_return |-> OneYearReturn(current_price, window),
            volatility |-> Volatility(Returns(ticker_data)),
            week_high |-> week_high,
            week_low |-> week_low,
            vs_52w_high |-> VsExtreme(current_price, week_high, week_low, week_high),
            vs_52w_low |-> VsExtreme(current_price, week_high, week_low, week_low)]

CalculateStockStats(ticker, current_date) ==
  /\ stock_data' = SharedAfterDateAssign(stock_data,
                                         TickerCopy(stock_data, ticker), ticker)
  /\ stats' = StatsResult(stock_data, ticker, current_date)
  /\ period_data' = NoFrame
  /\ pct_change' = None
  /\ last_call' = [op |-> "stats", ticker |-> ticker,
                   period_start |-> NoDate, period_end |-> NoDate,
                   current_date |-> current_date]

\* stats.get(key), as main() reads the dict (lines 395-407)
Get(dict, key) == IF key \in DOMAIN dict THEN dict[key] ELSE None

\* ---------------------------------------------------------- specification
NoCall == [op |-> "none", ticker |-> "", period_start |-> NoDate,
           period_end |-> NoDate, current_date |-> NoDate]

InitWith(frames) ==
  /\ stock_data \in frames
  /\ last_call = NoCall
  /\ period_data = NoFrame
  /\ pct_change = None
  /\ stats = NoStats

\* validated input: every adjusted close is positive
Init == InitWith(LoadedFrames(Closes) \cup {ExampleFrame})

\* input that was not validated: an adjusted close may be 0
InitZero == InitWith(LoadedFrames(ClosesWithZero))

Next ==
  \/ \E t \in Tickers, s \in QueryDates, e \in QueryDates : GetStockDataForPeriod(t, s, e)
  \/ \E t \in Tickers, c \in QueryDates : CalculateStockStats(t, c)

Spec == Init /\ [][Next]_vars

SpecZero == InitZero /\ [][Next]_vars

\* ------------------------------------------------- the series, as a set
\* the observations of a ticker in the shared frame: (date in days, close)
Obs(r) == [days |-> ToDatetime(r.Date).days, close |-> r.AdjClose]

Observations(t) ==
  {Obs(stock_data[i]) : i \in {j \in DOMAIN stock_data : stock_data[j].Ticker = t}}

Earliest(S) == CHOOSE o \in S : \A p \in S : o.days <= p.days
Latest(S) == CHOOSE o \in S : \A p \in S : o.days >= p.days

Days(dt) == DaysFromCivil(dt.y, dt.m, dt.d)

\* the observations of the last call's ticker with start <= date <= end
InPeriod ==
  {o \in Observations(last_call.ticker) :
     /\ Days(last_call.period_start) <= o.days
     /\ o.days <= Days(last_call.period_end)}

\* the shared frame holds two rows of the called ticker, the later one first
CalledOutOfOrder ==
  \E i, j \in DOMAIN stock_data :
    /\ i < j
    /\ stock_data[i].Ticker = last_call.ticker
    /\ stock_data[j].Ticker = last_call.ticker
    /\ Obs(stock_data[i]).days > Obs(stock_data[j]).days

\* ---------------------------------------------------------------- claims

\* C1: the window's observations are exactly the ticker's observations with
\* start <= date <= end, in non-decreasing date order; an empty selection
\* (in particular start > end) gives no frame and no percent change.
C1_WindowExact ==
  last_call.op = "window" =>
    LET rows == period_data.rows IN
    /\ {Obs(rows[i]) : i \in DOMAIN rows} = InPeriod
    /\ Len(rows) = Cardinality(InPeriod)
    /\ \A i \in DOMAIN rows : rows[i].Ticker = last_call.ticker
    /\ \A i, j \in DOMAIN rows : i < j => rows[i].Date.days <= rows[j].Date.days
    /\ period_data.none <=> InPeriod = {}
    /\ Days(last_call.period_start) > Days(last_call.period_end)
         => period_data.none /\ pct_change = None

C1_Witness ==
  /\ last_call.op = "window"
  /\ Cardinality(InPeriod) >= 2
  /\ Cardinality(InPeriod) < Cardinality(Observations(last_call.ticker))
  /\ \E i, j \in DOMAIN stock_data :
       /\ i < j
       /\ stock_data[i].Ticker = last_call.ticker
       /\ stock_data[j].Ticker = last_call.ticker
       /\ Obs(stock_data[i]) \in InPeriod
       /\ Obs(stock_data[j]) \in InPeriod
       /\ Obs(stock_data[i]).days > Obs(stock_data[j]).days

\* C2: percentChange is present iff the window has an observation, and is
\* then (lastClose / firstClose - 1) * 100 with first and last the earliest
\* and latest dated observations of the window; one observation gives 0.
C2_PercentChange ==
  last_call.op = "window" =>
    /\ pct_change # None <=> InPeriod # {}
    /\ InPeriod # {} =>
         pct_change = Num((Latest(InPeriod).close - Earliest(InPeriod).close) * 100,
                          Earliest(InPeriod).close)
    /\ Cardinality(InPeriod) = 1 => pct_change = Num(0, 1)

C2_Witness ==
  /\ C1_Witness
  /\ pct_change.k = "num"
  /\ pct_change.n # 0
  /\ \E i, j \in DOMAIN stock_data :
       /\ i < j
       /\ Obs(stock_data[i]) = Latest(InPeriod)
       /\ Obs(stock_data[j]) = Earliest(InPeriod)
       /\ stock_data[i].Ticker = last_call.ticker
       /\ stock_data[j].Ticker = last_call.ticker

\* the observations of the last call's ticker dated at or before the
\* reference date
AtOrBefore ==
  {o \in Observations(last_call.ticker) : o.days <= Days(last_call.current_date)}

StatKeys == {"current_price", "one_year_return", "volatility", "week_high",
             "week_low", "vs_52w_high", "vs_52w_low"}

\* C3: currentPrice is the close of the latest observation dated at or
\* before the reference date; with no such observation every field is absent.
C3_CurrentPrice ==
  last_call.op = "stats" =>
    IF AtOrBefore = {}
    THEN \A key \in StatKeys : Get(stats, key) = None
    ELSE Get(stats, "current_price") = Num(Latest(AtOrBefore).close, 1)

C3_Witness ==
  /\ last_call.op = "stats"
  /\ Cardinality(AtOrBefore) >= 2
  /\ \A o \in Observations(last_call.ticker) : o.days # Days(last_call.current_date)
  /\ CalledOutOfOrder
  /\ Get(stats, "current_price") = Num(Latest(AtOrBefore).close, 1)
  /\ Latest(AtOrBefore).close # Earliest(AtOrBefore).close

\* the reference date of the last call, in days
Ref == Days(last_call.current_date)

\* the observations dated at or after the reference date minus 365 days
Since == {o \in Observations(last_call.ticker) : o.days >= Ref - 365}

\* the trailing year: those of them dated at or before the reference date
Trailing == {o \in Since : o.days <= Ref}

HighOf(S) == (CHOOSE o \in S : \A p \in S : o.close >= p.close).close
LowOf(S) == (CHOOSE o \in S : \A p \in S : o.close <= p.close).close

\* (a / b - 1) * 100 for integers a and b, b # 0
Pct(a, b) == Num((a - b) * 100, b)

\* C4, as claimed: the base of oneYearReturn and the 52-week extremes come
\* from exactly the observations with ref - 365 <= date <= ref.  The code's
\* window has no upper end (lines 64, 78), so TLC finds this violated.
C4_TrailingYearEndsAtReference ==
  (last_call.op = "stats" /\ AtOrBefore # {}) =>
    IF Trailing = {}
    THEN /\ Get(stats, "week_high") = None
         /\ Get(stats, "week_low") = None
         /\ Get(stats, "one_year_return") = None
    ELSE /\ Get(stats, "week_high") = Num(HighOf(Trailing), 1)
         /\ Get(stats, "week_low") = Num(LowOf(Trailing), 1)
         /\ Get(stats, "one_year_return")
              = Pct(Latest(AtOrBefore).close, Earliest(Trailing).close)

\* C5, as claimed: with positive prices, whenever both distances are present
\* the current price lies within [week52Low, week52High], distanceFromHigh
\* <= 0 and distanceFromLow >= 0.  Violated through the window of C4.
C5_DistancesSigned ==
  (/\ last_call.op = "stats"
   /\ Get(stats, "vs_52w_high") # None
   /\ Get(stats, "vs_52w_low") # None) =>
    /\ FLeq(Get(stats, "week_low"), Get(stats, "current_price"))
    /\ FLeq(Get(stats, "current_price"), Get(stats, "week_high"))
    /\ Get(stats, "vs_52w_high")
         = PctOf(Get(stats, "current_price"), Get(stats, "week_high"))
    /\ Get(stats, "vs_52w_low")
         = PctOf(Get(stats, "current_price"), Get(stats, "week_low"))
    /\ FLeq(Get(stats, "vs_52w_high"), Num(0, 1))
    /\ FLeq(Num(0, 1), Get(stats, "vs_52w_low"))

\* the number of observations of the last call's ticker
NumObs == Cardinality(Observations(last_call.ticker))

IsNumberGeqZero(x) == x.k = "num" /\ x.n >= 0

Present(key) == Get(stats, key) # None

\* two observations adjacent in date order whose return is not NaN (0 / 0)
HasReturn ==
  \E a, b \in Observations(last_call.ticker) :
    /\ a.days < b.days
    /\ ~ \E c \in Observations(last_call.ticker) : a.days < c.days /\ c.days < b.days
    /\ ~(a.close = 0 /\ b.close = 0)

ExampleCall ==
  /\ stock_data = ExampleFrame
  /\ last_call.op = "stats"
  /\ last_call.ticker = "AAA"
  /\ last_call.current_date = Date(2024, 1, 1)

ExampleRest ==
  /\ Get(stats, "current_price") = Num(90, 1)
  /\ Get(stats, "week_high") = Num(120, 1)
  /\ Get(stats, "week_low") = Num(90, 1)
  /\ Get(stats, "vs_52w_high") = Num(-25, 1)
  /\ Get(stats, "vs_52w_low") = Num(0, 1)

\* C8, as claimed: the example series at 2024-01-01 gives currentPrice 90,
\* oneYearReturn -25, week52High 120, week52Low 90, distances -25 and 0.
C8_ExampleAsClaimed ==
  ExampleCall => ExampleRest /\ Get(stats, "one_year_return") = Num(-25, 1)

\* C8, amended: the same with oneYearReturn -10 = (90 / 100 - 1) * 100, the
\* base being the close of 2023-01-01, exactly 365 days before.
C8_Example ==
  ExampleCall => ExampleRest /\ Get(stats, "one_year_return") = Num(-10, 1)

C8_Witness == ExampleCall /\ Present("one_year_return")

\* C9: no call changes the shared frame, and the same call made again
\* returns the same results.
C9_SharedFrameUnchanged ==
  [][/\ stock_data' = stock_data
     /\ last_call' = last_call =>
          (period_data' = period_data /\ pct_change' = pct_change /\ stats' = stats)]_vars

\* a call on a frame whose rows for the ticker are out of date order
C9_Witness ==
  /\ last_call.op # "none"
  /\ CalledOutOfOrder
  /\ \A i \in DOMAIN stock_data : ~IsTimestamp(stock_data[i].Date)

\* C10, as claimed: with a current price, the distances are present iff
\* both extremes are, also when a close of the window is 0.  The guard of
\* line 87 is truthiness, so a zero extreme makes the distances absent.
C10_DistancesIffExtremes ==
  (last_call.op = "stats" /\ Present("current_price")) =>
    ((Present("vs_52w_high") /\ Present("vs_52w_low"))
       <=> (Present("week_high") /\ Present("week_low")))

====
